---- MODULE Spec2Model ----
(***************************************************************************)
(* Model of solrizer's content_model indexer                               *)
(* (src/src/solrizer/indexers/content_model.py).                           *)
(*                                                                         *)
(* Field names are Python strings and are built here with the same string  *)
(* concatenations as the code.  A SolrFields dictionary is a function from *)
(* field names to field values; a field value is a record                  *)
(*   [kind |-> "scalar" | "list" | "docs", vals |-> <<...>>]               *)
(* whose vals are Python scalars (PyStr, PyInt) or, for "docs", nested     *)
(* SolrFields dictionaries.  A call either returns a dictionary or raises; *)
(* both outcomes are carried by a record [ok, fields, error].              *)
(***************************************************************************)
EXTENDS Integers, Sequences, FiniteSets, TLC

\* ------------------------------------------------------------------ bounds

\* Most values a property of the pure-function specification holds.
MaxValues == 2
\* Most values an object property of a resource holds.
MaxUris == 2
\* Most values a data property of a resource holds.
MaxLiterals == 1
\* Most properties a resource declares.
MaxProps == 2
\* Deepest nesting of get_model_fields calls the model follows.
MaxDepth == 4

\* ------------------------------------------------------- Python strings

None == "None"

UpperChars == "ABCDEFGHIJKLMNOPQRSTUVWXYZ"
LowerChars == "abcdefghijklmnopqrstuvwxyz"

Char(s, i) == SubSeq(s, i, i)

\* str.lower() on one character.
LowerChar(c) ==
    IF \E i \in 1..Len(UpperChars) : Char(UpperChars, i) = c
    THEN Char(LowerChars, CHOOSE i \in 1..Len(UpperChars) : Char(UpperChars, i) = c)
    ELSE c

RECURSIVE Lower(_)
Lower(s) == IF Len(s) = 0 THEN "" ELSE LowerChar(Char(s, 1)) \o Lower(SubSeq(s, 2, Len(s)))

\* str.replace(old, new) for a one-character old.
RECURSIVE Replace(_, _, _)
Replace(s, old, new) ==
    IF Len(s) = 0 THEN ""
    ELSE (IF Char(s, 1) = old THEN new ELSE Char(s, 1)) \o Replace(SubSeq(s, 2, Len(s)), old, new)

StartsWith(s, p) == Len(s) >= Len(p) /\ SubSeq(s, 1, Len(p)) = p

EndsWith(s, p) == Len(s) >= Len(p) /\ SubSeq(s, Len(s) - Len(p) + 1, Len(s)) = p

\* ------------------------------------------------------- Python values

PyStr(s) == [py |-> "str", n |-> 0, s |-> s]
PyInt(n) == [py |-> "int", n |-> n, s |-> ""]

Scalar(v) == [kind |-> "scalar", vals |-> <<v>>]
List(vs) == [kind |-> "list", vals |-> vs]
Docs(ds) == [kind |-> "docs", vals |-> ds]

EmptyFields == [k \in {} |-> Scalar(PyStr(""))]

\* {name: value}
Field(name, value) == [k \in {name} |-> value]

\* dict.update(): keys of g are written over those of f.
Update(f, g) == [k \in (DOMAIN f) \cup (DOMAIN g) |-> IF k \in DOMAIN g THEN g[k] ELSE f[k]]

Ok(fields) == [ok |-> TRUE, fields |-> fields, error |-> "", detail |-> ""]
Raise(error, detail) == [ok |-> FALSE, fields |-> EmptyFields, error |-> error, detail |-> detail]

Val(v) == [ok |-> TRUE, val |-> v, error |-> "", detail |-> ""]
RaiseVal(error, detail) == [ok |-> FALSE, val |-> PyStr(""), error |-> error, detail |-> detail]

\* An RDF literal or URI reference: its lexical form and its language tag.
Literal(value, language) == [value |-> value, language |-> language]
URIRef(uri) == [value |-> uri, language |-> None]

\* --------------------------------------------------- external libraries

\* int(): a base-10 parse of the whole string.
Digits == "0123456789"

IsDigit(c) == \E i \in 1..Len(Digits) : Char(Digits, i) = c

DigitValue(c) == (CHOOSE i \in 1..Len(Digits) : Char(Digits, i) = c) - 1

IsInt(s) == Len(s) > 0 /\ \A i \in 1..Len(s) : IsDigit(Char(s, i))

RECURSIVE ParseInt(_)
ParseInt(s) ==
    IF Len(s) = 0 THEN 0
    ELSE 10 * ParseInt(SubSeq(s, 1, Len(s) - 1)) + DigitValue(Char(s, Len(s)))

\* langcodes.standardize_tag() on the tags the model uses: 3-letter codes
\* become 2-letter codes and the case of subtags is normalised; any other
\* tag raises LanguageTagError.
StandardTags ==
    ("en" :> "en") @@ ("eng" :> "en") @@ ("de" :> "de")
        @@ ("en-US" :> "en-US") @@ ("en-us" :> "en-US")

TagIsValid(tag) == tag \in DOMAIN StandardTags

standardize_tag(tag) == StandardTags[tag]

\* The repository's endpoint; `uri in repo.endpoint`.
EndpointURL == "http://example.com/fcrepo"

InEndpoint(uri) == StartsWith(uri, EndpointURL)

\* URLObject(uri).fragment is non-empty.
HasFragment(uri) == \E i \in 1..(Len(uri) - 1) : Char(uri, i) = "#"

\* namespace_manager.curie(uri, generate=False): the registered namespaces.
Namespaces == <<[prefix |-> "dcmitype", ns |-> "http://purl.org/dc/dcmitype/"]>>

CurieKnown(uri) ==
    \E i \in 1..Len(Namespaces) :
        StartsWith(uri, Namespaces[i].ns) /\ Len(uri) > Len(Namespaces[i].ns)

Curie(uri) ==
    LET i == CHOOSE j \in 1..Len(Namespaces) :
                 StartsWith(uri, Namespaces[j].ns) /\ Len(uri) > Len(Namespaces[j].ns)
    IN Namespaces[i].prefix \o ":" \o SubSeq(uri, Len(Namespaces[i].ns) + 1, Len(uri))

\* solrizer.indexers.utils.solr_datetime(): full ISO 8601 dates and date-times
\* are rendered in UTC, a date alone at 00:00 of a UTC-5 local zone; anything
\* else raises ValueError.
SolrDatetimes == ("2024-11-19" :> "2024-11-19T05:00:00Z")

solr_datetime(s) ==
    IF s \in DOMAIN SolrDatetimes THEN Val(PyStr(SolrDatetimes[s]))
    ELSE RaiseVal("ValueError", s)

\* ------------------------------------------------------------ the module

\* class Suffix
Suffix(base, plural, lang) == [isstr |-> FALSE, base |-> base, plural |-> plural, lang |-> lang]

\* A plain str given as the suffix argument of get_field().
StrSuffix(base) == [isstr |-> TRUE, base |-> base, plural |-> FALSE, lang |-> ""]

\* Suffix.__str__
SuffixStr(suffix) == suffix.base \o (IF suffix.plural THEN "s" ELSE "") \o suffix.lang

FIELD_ARGUMENTS_BY_DATATYPE ==
    ("xsd:int" :> [suffix |-> "__int", converter |-> "int"])
        @@ ("xsd:integer" :> [suffix |-> "__int", converter |-> "int"])
        @@ ("xsd:long" :> [suffix |-> "__int", converter |-> "int"])
        @@ ("xsd:dateTime" :> [suffix |-> "__dt", converter |-> "solr_datetime"])
        @@ ("umdtype:accessionNumber" :> [suffix |-> "__id", converter |-> "str"])
        @@ ("umdtype:handle" :> [suffix |-> "__id", converter |-> "str"])

FIELD_ARGUMENTS_BY_ATTR_NAME ==
    ("created_by" :> [suffix |-> "__str", converter |-> "str"])
        @@ ("date" :> [suffix |-> "__edtf", converter |-> "str"])
        @@ ("filename" :> [suffix |-> "__str", converter |-> "str"])
        @@ ("identifier" :> [suffix |-> "__id", converter |-> "str"])
        @@ ("last_modified_by" :> [suffix |-> "__str", converter |-> "str"])
        @@ ("mime_type" :> [suffix |-> "__str", converter |-> "str"])

SKIP_FIELDS_BY_MODEL ==
    ("Issue" :> {"first"}) @@ ("Item" :> {"first"})
        @@ ("Letter" :> {"first"}) @@ ("Poster" :> {"first"})

\* No property is skipped by name.
SkipFields_none(model_name) == {}

\* SKIP_FIELDS_BY_MODEL.get(model_name, set())
SkipFields(model_name) ==
    IF model_name \in DOMAIN SKIP_FIELDS_BY_MODEL THEN SKIP_FIELDS_BY_MODEL[model_name] ELSE {}

Str(s) == [ok |-> TRUE, str |-> s, error |-> "", detail |-> ""]
RaiseStr(error, detail) == [ok |-> FALSE, str |-> "", error |-> error, detail |-> detail]

\* language_suffix() passing an unparsable tag on in lower case.
language_suffix_unchecked(language) ==
    IF language # None
    THEN IF TagIsValid(language)
         THEN Str("_" \o Replace(Lower(standardize_tag(language)), "-", "_"))
         ELSE Str("_" \o Replace(Lower(language), "-", "_"))
    ELSE Str("")

language_suffix(language) ==
    IF language # None
    THEN IF TagIsValid(language)
         THEN Str("_" \o Replace(Lower(standardize_tag(language)), "-", "_"))
         ELSE RaiseStr("IndexerError",
                       "Unable to determine language suffix from \"" \o language \o "\"")
    ELSE Str("")

\* A str.format() template: literal text and the fields {value} and {tag}.
Text(t) == [hole |-> "", text |-> t]
Hole(h) == [hole |-> h, text |-> ""]

DefaultTemplate == <<Hole("value"), Text("|"), Hole("tag")>>
DisplayTemplate == <<Text("[@"), Hole("tag"), Text("]"), Hole("value")>>

RECURSIVE Format(_, _, _)
Format(template, value, tag) ==
    IF template = <<>> THEN ""
    ELSE LET p == Head(template)
         IN (CASE p.hole = "value" -> value
               [] p.hole = "tag" -> tag
               [] OTHER -> p.text) \o Format(Tail(template), value, tag)

embed_language_tag(value, template) ==
    IF value.language # None /\ value.language # ""
    THEN IF TagIsValid(value.language)
         THEN Str(Format(template, value.value, standardize_tag(value.language)))
         ELSE RaiseStr("LanguageTagError", value.language)
    ELSE Str(value.value)

PyNone == [py |-> "NoneType", n |-> 0, s |-> ""]

\* namespace_manager.curie(uri, generate=False): raises when no registered
\* namespace matches.
NamespaceCurie(uri) ==
    IF CurieKnown(uri) THEN Val(PyStr(Curie(uri))) ELSE RaiseVal("KeyError", uri)

shorten_uri(uri) ==
    IF uri = None THEN PyNone
    ELSE LET curie == NamespaceCurie(uri)
         IN IF curie.ok THEN curie.val ELSE PyStr(uri)

\* converter(v) for the converters the module passes to get_field().
Convert(converter, v) ==
    CASE converter = "int" ->
             IF IsInt(v.value) THEN Val(PyInt(ParseInt(v.value)))
             ELSE RaiseVal("ValueError", v.value)
      [] converter = "solr_datetime" -> solr_datetime(v.value)
      [] converter = "shorten_uri" -> Val(shorten_uri(v.value))
      [] OTHER -> Val(PyStr(v.value))

\* value_filter: the default `lambda v: True`, or `lambda v: v.language == language`.
PassAll == [all |-> TRUE, language |-> None]
LanguageIs(language) == [all |-> FALSE, language |-> language]

Passes(value_filter, v) == value_filter.all \/ v.language = value_filter.language

\* get_field() with the value filter left out.
get_field_unfiltered(prop, prefix, suffix, converter, value_filter) ==
    LET sfx == IF suffix.isstr THEN Suffix(suffix.base, prop.repeatable, "") ELSE suffix
        name == prefix \o prop.attr_name \o SuffixStr(sfx)
        converted == [i \in 1..Len(prop.values) |-> Convert(converter, prop.values[i])]
        failed == {i \in 1..Len(prop.values) : ~converted[i].ok}
        values == [i \in 1..Len(prop.values) |-> converted[i].val]
    IN IF failed # {}
       THEN LET i == CHOOSE j \in failed : \A k \in failed : j <= k
            IN Raise(converted[i].error, converted[i].detail)
       ELSE IF prop.repeatable THEN Ok(Field(name, List(values)))
       ELSE IF Len(values) = 0 THEN Raise("IndexError", "list index out of range")
       ELSE Ok(Field(name, Scalar(values[1])))

get_field(prop, prefix, suffix, converter, value_filter) ==
    LET sfx == IF suffix.isstr THEN Suffix(suffix.base, prop.repeatable, "") ELSE suffix
        name == prefix \o prop.attr_name \o SuffixStr(sfx)
        passing == SelectSeq(prop.values, LAMBDA v : Passes(value_filter, v))
        converted == [i \in 1..Len(passing) |-> Convert(converter, passing[i])]
        failed == {i \in 1..Len(passing) : ~converted[i].ok}
        values == [i \in 1..Len(passing) |-> converted[i].val]
    IN IF failed # {}
       THEN LET i == CHOOSE j \in failed : \A k \in failed : j <= k
            IN Raise(converted[i].error, converted[i].detail)
       ELSE IF prop.repeatable THEN Ok(Field(name, List(values)))
       ELSE IF Len(values) = 0 THEN Raise("IndexError", "list index out of range")
       ELSE Ok(Field(name, Scalar(values[1])))

\* The languages of the values and, always, the absent language.
Languages_with_absent(prop) ==
    {prop.values[i].language : i \in 1..Len(prop.values)} \cup {None}

\* prop.languages: the set of the languages of the property's values.
Languages(prop) == {prop.values[i].language : i \in 1..Len(prop.values)}

\* The loop over prop.languages, in the order `order` enumerates them.
RECURSIVE TextFields(_, _, _, _)
TextFields(prop, prefix, order, fields) ==
    IF order = <<>> THEN Ok(fields)
    ELSE LET language == Head(order)
             lang == language_suffix(language)
             field == get_field(prop, prefix, Suffix("__txt", prop.repeatable, lang.str),
                                "str", LanguageIs(language))
         IN IF ~lang.ok THEN Raise(lang.error, lang.detail)
            ELSE IF ~field.ok THEN field
            ELSE TextFields(prop, prefix, Tail(order), Update(fields, field.fields))

\* DisplayValues() rendering with the default template of embed_language_tag().
DisplayValues_default_template(prop) ==
    LET embedded == [i \in 1..Len(prop.values) |-> embed_language_tag(prop.values[i], DefaultTemplate)]
        failed == {i \in 1..Len(prop.values) : ~embedded[i].ok}
    IN IF failed # {}
       THEN LET i == CHOOSE j \in failed : \A k \in failed : j <= k
            IN RaiseVal(embedded[i].error, embedded[i].detail)
       ELSE Val([i \in 1..Len(prop.values) |-> PyStr(embedded[i].str)])

\* [embed_language_tag(v, '[@{tag}]{value}') for v in prop.values]
DisplayValues(prop) ==
    LET embedded == [i \in 1..Len(prop.values) |-> embed_language_tag(prop.values[i], DisplayTemplate)]
        failed == {i \in 1..Len(prop.values) : ~embedded[i].ok}
    IN IF failed # {}
       THEN LET i == CHOOSE j \in failed : \A k \in failed : j <= k
            IN RaiseVal(embedded[i].error, embedded[i].detail)
       ELSE Val([i \in 1..Len(prop.values) |-> PyStr(embedded[i].str)])

\* The free-text branch of get_data_fields().
TextBranch(prop, prefix, order) ==
    LET text == TextFields(prop, prefix, order, EmptyFields)
        display == DisplayValues(prop)
    IN IF ~text.ok THEN text
       ELSE IF ~display.ok THEN Raise(display.error, display.detail)
       ELSE Ok(Update(text.fields,
                      Field(prefix \o prop.attr_name \o "__display", List(display.val))))

\* get_data_fields() looking the attribute name up before the datatype.
get_data_fields_by_name_first(prop, prefix, order) ==
    IF prop.attr_name \in DOMAIN FIELD_ARGUMENTS_BY_ATTR_NAME
    THEN LET args == FIELD_ARGUMENTS_BY_ATTR_NAME[prop.attr_name]
         IN get_field(prop, prefix, StrSuffix(args.suffix), args.converter, PassAll)
    ELSE IF prop.datatype \in DOMAIN FIELD_ARGUMENTS_BY_DATATYPE
    THEN LET args == FIELD_ARGUMENTS_BY_DATATYPE[prop.datatype]
         IN get_field(prop, prefix, StrSuffix(args.suffix), args.converter, PassAll)
    ELSE TextBranch(prop, prefix, order)

\* get_data_fields() returning no field where the property fails.
get_data_fields_absorbing(prop, prefix, order) ==
    LET got == IF prop.datatype \in DOMAIN FIELD_ARGUMENTS_BY_DATATYPE
               THEN LET args == FIELD_ARGUMENTS_BY_DATATYPE[prop.datatype]
                    IN get_field(prop, prefix, StrSuffix(args.suffix), args.converter, PassAll)
               ELSE IF prop.attr_name \in DOMAIN FIELD_ARGUMENTS_BY_ATTR_NAME
               THEN LET args == FIELD_ARGUMENTS_BY_ATTR_NAME[prop.attr_name]
                    IN get_field(prop, prefix, StrSuffix(args.suffix), args.converter, PassAll)
               ELSE TextBranch(prop, prefix, order)
    IN IF got.ok THEN got ELSE Ok(EmptyFields)

get_data_fields(prop, prefix, order) ==
    IF prop.datatype \in DOMAIN FIELD_ARGUMENTS_BY_DATATYPE
    THEN LET args == FIELD_ARGUMENTS_BY_DATATYPE[prop.datatype]
         IN get_field(prop, prefix, StrSuffix(args.suffix), args.converter, PassAll)
    ELSE IF prop.attr_name \in DOMAIN FIELD_ARGUMENTS_BY_ATTR_NAME
    THEN LET args == FIELD_ARGUMENTS_BY_ATTR_NAME[prop.attr_name]
         IN get_field(prop, prefix, StrSuffix(args.suffix), args.converter, PassAll)
    ELSE TextBranch(prop, prefix, order)

\* issubclass(prop.object_class, VocabularyTerm)
IsVocabularyTerm(object_class) == object_class = "VocabularyTerm"

\* obj.__class__.model_name of a ContentModeledResource; None for the classes
\* that are not content-modeled.
ClassModelName(class) == IF class \in {"Item", "Issue", "Letter", "Poster"} THEN class ELSE None

\* No content_model_name__str field.
ModelSeed_empty(model_name) == EmptyFields

\* The fields get_model_fields() starts from.
ModelSeed(model_name) ==
    IF model_name # None
    THEN Field("content_model_name__str", Scalar(PyStr(model_name)))
    ELSE EmptyFields

\* Resources whose description lives at <uri>/fcr:metadata (binaries).
NonRdfSources == {"http://example.com/fcrepo/bar"}

\* str(resource.description_url or resource.url)
DescribedBy(uri) == IF uri \in NonRdfSources THEN uri \o "/fcr:metadata" ELSE uri

\* fields.update(described_by__uri=...)
DescribedByField(uri) == Field("described_by__uri", Scalar(PyStr(DescribedBy(uri))))

\* The __uri field alone.
ObjectBaseFields_uri_only(prop, prefix) ==
    get_field(prop, prefix, StrSuffix("__uri"), "str", PassAll)

\* The __uri and __curie fields every object property gets.
ObjectBaseFields(prop, prefix) ==
    LET uri == get_field(prop, prefix, StrSuffix("__uri"), "str", PassAll)
        curie == get_field(prop, prefix, StrSuffix("__curie"), "shorten_uri", PassAll)
    IN IF ~uri.ok THEN uri
       ELSE IF ~curie.ok THEN curie
       ELSE Ok(Update(uri.fields, curie.fields))

\* The prefix of the child documents of a property.
ChildPrefix(prop) == Lower(prop.object_class) \o "__"

\* The prefix of the inlined fields of a vocabulary term.
TermPrefix(prop, prefix) == prefix \o prop.attr_name \o "__"

\* {'id': str(o.uri), **get_model_fields(o, ...)}
ChildDocument(uri, fields) == Update(Field("id", Scalar(PyStr(uri))), fields)

\* ------------------------------------------------- inputs of the model

\* All sequences over S of length at most n.
SeqUpTo(S, n) == UNION {[1..k -> S] : k \in 0..n}

\* All orders in which a set can be iterated.
Orders(S) == {o \in [1..Cardinality(S) -> S] : \A x \in S : \E i \in DOMAIN o : o[i] = x}

DataProperty(attr_name, datatype, repeatable, values) ==
    [kind |-> "data", attr_name |-> attr_name, datatype |-> datatype,
     repeatable |-> repeatable, values |-> values,
     embedded |-> FALSE, object_class |-> None, resolved |-> FALSE]

ObjectProperty(attr_name, repeatable, values, embedded, object_class, resolved) ==
    [kind |-> "object", attr_name |-> attr_name, datatype |-> None,
     repeatable |-> repeatable, values |-> values,
     embedded |-> embedded, object_class |-> object_class, resolved |-> resolved]

NoProperty == DataProperty("", None, FALSE, <<>>)

LexicalForms == {"Hello", "5"}
LanguageTags == {None, "en", "eng", "de", "invalidtag"}
Literals == {Literal(v, l) : v \in LexicalForms, l \in LanguageTags}

TextProperties ==
    {DataProperty("title", None, r, vs) : r \in BOOLEAN, vs \in SeqUpTo(Literals, MaxValues)}

DataProperties ==
    {DataProperty(a, d, r, vs) :
        a \in {"title", "date"}, d \in {None, "xsd:int"},
        r \in BOOLEAN, vs \in SeqUpTo(Literals, MaxValues)}

Prefixes == {"", "object__"}
SuffixArguments ==
    {StrSuffix("__str"), Suffix("__txt", TRUE, "_en"), Suffix("__txt", FALSE, "")}
Converters == {"str", "int"}
ValueFilters == {PassAll, LanguageIs("en"), LanguageIs(None)}

\* The resources of the modelled repository and vocabulary.
FOO == "http://example.com/fcrepo/foo"
FRAG == "http://example.com/fcrepo/foo#a"
FRAG2 == "http://example.com/fcrepo/foo#b"
BAR == "http://example.com/fcrepo/bar"
EXT == "http://purl.org/dc/dcmitype/Text"

Children == {FRAG, FRAG2, BAR, EXT}

ResourceLiterals == {Literal("5", None), Literal("Hello", "en"), Literal("Hello", "invalidtag")}

\* The value lists of an object property: distinct URIs, as in an RDF graph.
UriLists(uris, n) ==
    {vs \in SeqUpTo({URIRef(u) : u \in uris}, n) :
        \A i, j \in DOMAIN vs : i # j => vs[i] # vs[j]}

\* An embedded property refers to fragments ("hash URIs") of the resource.
EmbeddedValues == UriLists({FRAG, FRAG2}, MaxUris)

ObjectValues == UriLists(Children, MaxUris)

\* A vocabulary-term property refers to at most one term.
TermValues == UriLists(Children, 1)

\* The properties a world varies: one data property and one object property
\* in every shape.
FocusProperties ==
    {DataProperty("title", d, r, vs) :
        d \in {None, "xsd:int"}, r \in BOOLEAN, vs \in SeqUpTo(ResourceLiterals, MaxLiterals)}
    \cup {ObjectProperty("member", r, vs, FALSE, None, FALSE) :
            r \in BOOLEAN, vs \in ObjectValues}
    \cup {ObjectProperty("member", r, vs, FALSE, "Agent", FALSE) :
            r \in BOOLEAN, vs \in ObjectValues}
    \cup {ObjectProperty("member", r, vs, TRUE, "Agent", FALSE) :
            r \in BOOLEAN, vs \in EmbeddedValues}
    \cup {ObjectProperty("member", r, vs, e, "VocabularyTerm", FALSE) :
            r \in BOOLEAN, e \in BOOLEAN, vs \in TermValues}
    \cup {ObjectProperty("member", r, vs, e, "VocabularyTerm", TRUE) :
            r \in BOOLEAN, e \in BOOLEAN, vs \in TermValues \ {<<>>}}

\* The properties that may stand beside one.
SideProperties ==
    {ObjectProperty("first", FALSE, <<URIRef(BAR)>>, FALSE, None, FALSE),
     DataProperty("date", None, FALSE, <<Literal("5", None)>>),
     DataProperty("date", None, TRUE, <<>>)}

\* The lists of side properties with unique attribute names.
SideLists(n) ==
    {ps \in SeqUpTo(SideProperties, n) :
        \A i, j \in DOMAIN ps : i # j => ps[i].attr_name # ps[j].attr_name}

\* The list ps with p put in at place k, or at its end.
Insert(ps, k, p) ==
    LET at == IF k > Len(ps) + 1 THEN Len(ps) + 1 ELSE k
    IN SubSeq(ps, 1, at - 1) \o <<p>> \o SubSeq(ps, at, Len(ps))

\* The property lists of the indexed resource: attribute names are unique;
\* at most one of the properties is a focus property, at any place.
RootPropertyLists ==
    SideLists(MaxProps)
    \cup {Insert(ps, k, p) :
            p \in FocusProperties,
            ps \in SideLists(MaxProps - 1),
            k \in 1..MaxProps}

Label == DataProperty("label", None, FALSE, <<Literal("Hello", "en")>>)
BadLabel == DataProperty("label", None, FALSE, <<Literal("Hello", "invalidtag")>>)
LinkToBar == ObjectProperty("member", TRUE, <<URIRef(BAR)>>, FALSE, "Agent", FALSE)

\* The property lists of the other resources: none, a label each, a chain
\* FRAG -> BAR, a chain FRAG -> BAR with the cycle BAR -> BAR, or labels of
\* which two have a language tag that cannot be parsed.
ChildGraphs ==
    {(FRAG :> <<>>) @@ (FRAG2 :> <<>>) @@ (BAR :> <<>>) @@ (EXT :> <<>>),
     (FRAG :> <<Label>>) @@ (FRAG2 :> <<Label>>) @@ (BAR :> <<Label>>) @@ (EXT :> <<Label>>),
     (FRAG :> <<LinkToBar>>) @@ (FRAG2 :> <<Label>>) @@ (BAR :> <<Label>>) @@ (EXT :> <<>>),
     (FRAG :> <<LinkToBar>>) @@ (FRAG2 :> <<>>) @@ (BAR :> <<LinkToBar>>) @@ (EXT :> <<>>),
     (FRAG :> <<BadLabel>>) @@ (FRAG2 :> <<Label>>) @@ (BAR :> <<BadLabel>>) @@ (EXT :> <<>>)}

\* A world without any property.
NoResources == [model_name |-> None, props |-> [u \in {FOO} \cup Children |-> <<>>]]

\* The resources the object properties of a property list refer to and
\* describe (a property without an object class describes nothing).
Referenced(ps) ==
    UNION {{ps[i].values[k].value : k \in DOMAIN ps[i].values} :
            i \in {n \in DOMAIN ps : ps[n].kind = "object" /\ ps[n].object_class # None}}

RECURSIVE ReachableFrom(_, _, _)
ReachableFrom(seen, g, n) ==
    IF n = 0 THEN seen
    ELSE ReachableFrom(seen \cup UNION {Referenced(g[u]) : u \in seen}, g, n - 1)

\* The child graph g without the property lists no request from ps can reach.
Reached(ps, g) ==
    LET reach == ReachableFrom(Referenced(ps), g, Cardinality(Children))
    IN [u \in Children |-> IF u \in reach THEN g[u] ELSE <<>>]

Worlds ==
    {[model_name |-> m, props |-> (FOO :> ps) @@ Reached(ps, g)] :
        m \in {"Item", None}, ps \in RootPropertyLists, g \in ChildGraphs}

\* ------------------------------------------------------------- state

VARIABLES
    call,      \* the last direct call of one of the module's pure functions
    world,     \* the resources: the indexed resource's class and every property list
    stack,     \* the Python call stack of the indexing request
    ret,       \* the value the last finished call returned, until its caller takes it
    events,    \* the repository reads and child-document builds, in order
    outcome,   \* what content_model_fields() gave: a document or an exception
    clobbered, \* the keys a merge step wrote over
    ncalls     \* the number of get_object_fields() calls so far

vars == <<call, world, stack, ret, events, outcome, clobbered, ncalls>>

runvars == <<world, stack, ret, events, outcome, clobbered, ncalls>>

NoCall ==
    [fn |-> "none", prop |-> NoProperty, prefix |-> "", suffix |-> StrSuffix(""),
     converter |-> "str", value_filter |-> PassAll, order |-> <<>>,
     language |-> None, result |-> Ok(EmptyFields), str |-> Str(""), val |-> PyNone]

\* get_field(prop, prefix, suffix, converter, value_filter)
CallGetField ==
    /\ call.fn = "none"
    /\ UNCHANGED runvars
    /\ \E prop \in TextProperties, prefix \in Prefixes, suffix \in SuffixArguments,
       converter \in Converters, value_filter \in ValueFilters :
        call' = [NoCall EXCEPT !.fn = "get_field", !.prop = prop, !.prefix = prefix,
                               !.suffix = suffix, !.converter = converter,
                               !.value_filter = value_filter,
                               !.result = get_field(prop, prefix, suffix, converter, value_filter)]

\* get_data_fields(prop, prefix); prop.languages is iterated in some order
CallGetDataFields ==
    /\ call.fn = "none"
    /\ UNCHANGED runvars
    /\ \E prop \in DataProperties, prefix \in Prefixes :
        \E order \in Orders(Languages(prop)) :
            call' = [NoCall EXCEPT !.fn = "get_data_fields", !.prop = prop, !.prefix = prefix,
                                   !.order = order,
                                   !.result = get_data_fields(prop, prefix, order)]

\* language_suffix(language)
CallLanguageSuffix ==
    /\ call.fn = "none"
    /\ UNCHANGED runvars
    /\ \E language \in LanguageTags \cup DOMAIN StandardTags :
        call' = [NoCall EXCEPT !.fn = "language_suffix", !.language = language,
                               !.str = language_suffix(language)]

\* embed_language_tag(value, template)
CallEmbedLanguageTag ==
    /\ call.fn = "none"
    /\ UNCHANGED runvars
    /\ \E value \in Literals, template \in {DefaultTemplate, DisplayTemplate} :
        call' = [NoCall EXCEPT !.fn = "embed_language_tag",
                               !.language = value.language, !.order = template,
                               !.prop = DataProperty("", None, FALSE, <<value>>),
                               !.str = embed_language_tag(value, template)]

\* shorten_uri(uri)
CallShortenUri ==
    /\ call.fn = "none"
    /\ UNCHANGED runvars
    /\ \E uri \in {None, FOO} \cup Children :
        call' = [NoCall EXCEPT !.fn = "shorten_uri", !.language = uri,
                               !.val = shorten_uri(uri)]

\* ------------------------------------------------- the indexing request

BaseFrame ==
    [fn |-> "", pc |-> "", id |-> 0, obj |-> "", raw |-> FALSE, model_name |-> None,
     prefix |-> "", i |-> 1, fields |-> EmptyFields, prop |-> NoProperty,
     j |-> 1, docs |-> <<>>]

ModelFrame(obj, model_name, prefix) ==
    [BaseFrame EXCEPT !.fn = "get_model_fields", !.pc = "start", !.obj = obj,
                      !.model_name = model_name, !.prefix = prefix]

ObjectFrame(prop, prefix, id) ==
    [BaseFrame EXCEPT !.fn = "get_object_fields", !.pc = "start", !.prop = prop,
                      !.prefix = prefix, !.id = id]

ChildrenFrame(prop, prefix, id) ==
    [BaseFrame EXCEPT !.fn = "get_child_documents", !.pc = "next", !.prop = prop,
                      !.prefix = prefix, !.id = id]

NoReturn ==
    [fn |-> "none", id |-> 0, obj |-> "", model_name |-> None, prefix |-> "",
     prop |-> NoProperty, fields |-> EmptyFields, docs |-> <<>>]

NoOutcome == [status |-> "idle", doc |-> EmptyFields, error |-> "", detail |-> ""]

Top == stack[Len(stack)]

Running(fn, pc) ==
    /\ outcome.status = "running"
    /\ stack # <<>>
    /\ Top.fn = fn
    /\ Top.pc = pc

\* The stack with its top frame replaced.
SetTop(frame) == [stack EXCEPT ![Len(stack)] = frame]

Pop == SubSeq(stack, 1, Len(stack) - 1)

\* The number of get_model_fields() calls in progress.
Depth == Cardinality({k \in DOMAIN stack : stack[k].fn = "get_model_fields"})

\* The kinds of the object properties being processed, outermost first.
PropertyKind(prop) ==
    IF prop.object_class = None THEN "plain"
    ELSE IF IsVocabularyTerm(prop.object_class) THEN "vocabulary"
    ELSE IF prop.embedded THEN "embedded"
    ELSE "linked"

Via ==
    LET frames == SelectSeq(stack, LAMBDA f : f.fn = "get_object_fields")
    IN [k \in DOMAIN frames |-> PropertyKind(frames[k].prop)]

ReadEvent(uri, site, id) == [ev |-> "read", uri |-> uri, site |-> site, id |-> id, via |-> Via]
BuildEvent(uri, id) == [ev |-> "build", uri |-> uri, site |-> "child", id |-> id, via |-> Via]

\* The keys that fields.update(new) writes over.
Overwritten(fields, new, at) ==
    {[key |-> k, at |-> at] : k \in (DOMAIN fields) \cap (DOMAIN new)}

\* An exception leaves every frame: nothing in the module catches it.
Throw(error, detail) ==
    /\ outcome' = [status |-> "error", doc |-> EmptyFields, error |-> error, detail |-> detail]
    /\ stack' = <<>>
    /\ ret' = NoReturn

\* content_model_fields(ctx)
ContentModelFields ==
    /\ outcome.status = "idle"
    /\ call.fn = "none"
    /\ outcome' = [outcome EXCEPT !.status = "running"]
    /\ stack' = <<ModelFrame(FOO, world.model_name, "object__")>>
    /\ UNCHANGED <<call, world, ret, events, clobbered, ncalls>>

\* get_model_fields(): the fields it starts from
ModelStart ==
    /\ Running("get_model_fields", "start")
    /\ stack' = SetTop([Top EXCEPT !.fields = ModelSeed(Top.model_name), !.pc = "describe"])
    /\ UNCHANGED <<call, world, ret, events, outcome, clobbered, ncalls>>

\* The test without the fragment check.
NeedsDescribedBy_fragments_too(uri) == InEndpoint(uri)

\* url in repo.endpoint and not url.fragment
NeedsDescribedBy(uri) == InEndpoint(uri) /\ ~HasFragment(uri)

\* get_model_fields(): the resource is read for its "described by" URL
DescribedByRead ==
    /\ Running("get_model_fields", "describe")
    /\ NeedsDescribedBy(Top.obj)
    /\ events' = Append(events, ReadEvent(Top.obj, "described_by", 0))
    /\ clobbered' = clobbered \cup Overwritten(Top.fields, DescribedByField(Top.obj), "described_by")
    /\ stack' = SetTop([Top EXCEPT !.fields = Update(Top.fields, DescribedByField(Top.obj)),
                                   !.pc = "loop"])
    /\ UNCHANGED <<call, world, ret, outcome, ncalls>>

\* get_model_fields(): that read fails
DescribedByUnavailable ==
    /\ Running("get_model_fields", "describe")
    /\ NeedsDescribedBy(Top.obj)
    /\ events' = Append(events, ReadEvent(Top.obj, "described_by", 0))
    /\ Throw("RepositoryError", Top.obj)
    /\ UNCHANGED <<call, world, clobbered, ncalls>>

\* get_model_fields(): a fragment, or a resource outside the repository
DescribedBySkip ==
    /\ Running("get_model_fields", "describe")
    /\ ~NeedsDescribedBy(Top.obj)
    /\ stack' = SetTop([Top EXCEPT !.pc = "loop"])
    /\ UNCHANGED <<call, world, ret, events, outcome, clobbered, ncalls>>

\* obj.rdf_properties()
Properties(obj) == world.props[obj]

InLoop ==
    /\ Running("get_model_fields", "loop")
    /\ Top.i <= Len(Properties(Top.obj))

CurrentProperty == Properties(Top.obj)[Top.i]

\* get_model_fields(): a property with no values is skipped
SkipEmptyProperty ==
    /\ InLoop
    /\ Len(CurrentProperty.values) = 0
    /\ stack' = SetTop([Top EXCEPT !.i = Top.i + 1])
    /\ UNCHANGED <<call, world, ret, events, outcome, clobbered, ncalls>>

\* get_model_fields(): a property in the model's skip set is skipped
SkipPropertyOfModel ==
    /\ InLoop
    /\ Len(CurrentProperty.values) # 0
    /\ CurrentProperty.attr_name \in SkipFields(Top.model_name)
    /\ stack' = SetTop([Top EXCEPT !.i = Top.i + 1])
    /\ UNCHANGED <<call, world, ret, events, outcome, clobbered, ncalls>>

Dispatched ==
    /\ InLoop
    /\ Len(CurrentProperty.values) # 0
    /\ CurrentProperty.attr_name \notin SkipFields(Top.model_name)

\* get_model_fields(): fields.update(get_data_fields(prop, prefix))
DataFields ==
    /\ Dispatched
    /\ CurrentProperty.kind = "data"
    /\ \E order \in Orders(Languages(CurrentProperty)) :
        LET got == get_data_fields(CurrentProperty, Top.prefix, order)
        IN IF got.ok
           THEN /\ stack' = SetTop([Top EXCEPT !.fields = Update(Top.fields, got.fields),
                                               !.i = Top.i + 1])
                /\ clobbered' = clobbered \cup Overwritten(Top.fields, got.fields, "data")
                /\ UNCHANGED <<ret, outcome>>
           ELSE /\ Throw(got.error, got.detail)
                /\ UNCHANGED clobbered
    /\ UNCHANGED <<call, world, events, ncalls>>

\* get_model_fields(): get_object_fields(prop, repo, prefix) is called
ObjectFields ==
    /\ Dispatched
    /\ CurrentProperty.kind = "object"
    /\ ncalls' = ncalls + 1
    /\ stack' = Append(SetTop([Top EXCEPT !.pc = "object"]),
                       ObjectFrame(CurrentProperty, Top.prefix, ncalls + 1))
    /\ UNCHANGED <<call, world, ret, events, outcome, clobbered>>

\* get_model_fields(): fields.update() with what get_object_fields() returned
MergeObjectFields ==
    /\ Running("get_model_fields", "object")
    /\ ret.fn = "get_object_fields"
    /\ clobbered' = clobbered \cup Overwritten(Top.fields, ret.fields, "object")
    /\ stack' = SetTop([Top EXCEPT !.fields = Update(Top.fields, ret.fields),
                                   !.i = Top.i + 1, !.pc = "loop"])
    /\ ret' = NoReturn
    /\ UNCHANGED <<call, world, events, outcome, ncalls>>

\* get_model_fields(): return fields
ModelReturn ==
    /\ Running("get_model_fields", "loop")
    /\ Top.i > Len(Properties(Top.obj))
    /\ ret' = [NoReturn EXCEPT !.fn = "get_model_fields", !.obj = Top.obj,
                               !.model_name = Top.model_name, !.prefix = Top.prefix,
                               !.fields = Top.fields]
    /\ stack' = Pop
    /\ UNCHANGED <<call, world, events, outcome, clobbered, ncalls>>

\* content_model_fields(): the document is returned
Finish ==
    /\ outcome.status = "running"
    /\ stack = <<>>
    /\ ret.fn = "get_model_fields"
    /\ outcome' = [outcome EXCEPT !.status = "done", !.doc = ret.fields]
    /\ UNCHANGED <<call, world, stack, ret, events, clobbered, ncalls>>

AtObjectStart(kind) ==
    /\ Running("get_object_fields", "start")
    /\ PropertyKind(Top.prop) = kind

\* get_object_fields(): no object class, only the __uri and __curie fields
ObjectPlain ==
    /\ AtObjectStart("plain")
    /\ ObjectBaseFields(Top.prop, Top.prefix).ok
    /\ stack' = SetTop([Top EXCEPT !.fields = ObjectBaseFields(Top.prop, Top.prefix).fields,
                                   !.pc = "return"])
    /\ UNCHANGED <<call, world, ret, events, outcome, clobbered, ncalls>>

\* get_object_fields(): a vocabulary term without a resolved object
ObjectVocabularyUnresolved ==
    /\ AtObjectStart("vocabulary")
    /\ ObjectBaseFields(Top.prop, Top.prefix).ok
    /\ ~Top.prop.resolved
    /\ stack' = SetTop([Top EXCEPT !.fields = ObjectBaseFields(Top.prop, Top.prefix).fields,
                                   !.pc = "return"])
    /\ UNCHANGED <<call, world, ret, events, outcome, clobbered, ncalls>>

\* get_object_fields(): get_model_fields(prop.object, ...) for a vocabulary term
ObjectVocabularyTerm ==
    /\ AtObjectStart("vocabulary")
    /\ ObjectBaseFields(Top.prop, Top.prefix).ok
    /\ Top.prop.resolved
    /\ Depth < MaxDepth
    /\ stack' = Append(
            SetTop([Top EXCEPT !.fields = ObjectBaseFields(Top.prop, Top.prefix).fields,
                               !.pc = "term"]),
            ModelFrame(Top.prop.values[1].value, ClassModelName(Top.prop.object_class),
                       TermPrefix(Top.prop, Top.prefix)))
    /\ UNCHANGED <<call, world, ret, events, outcome, clobbered, ncalls>>

\* get_object_fields(): fields.update() with the vocabulary term's fields
MergeVocabularyFields ==
    /\ Running("get_object_fields", "term")
    /\ ret.fn = "get_model_fields"
    /\ clobbered' = clobbered \cup Overwritten(Top.fields, ret.fields, "term")
    /\ stack' = SetTop([Top EXCEPT !.fields = Update(Top.fields, ret.fields), !.pc = "return"])
    /\ ret' = NoReturn
    /\ UNCHANGED <<call, world, events, outcome, ncalls>>

\* get_object_fields(): get_child_documents(objects=prop.objects) is called
ObjectEmbedded ==
    /\ AtObjectStart("embedded")
    /\ ObjectBaseFields(Top.prop, Top.prefix).ok
    /\ stack' = Append(
            SetTop([Top EXCEPT !.fields = ObjectBaseFields(Top.prop, Top.prefix).fields,
                               !.pc = "children"]),
            ChildrenFrame(Top.prop, ChildPrefix(Top.prop), Top.id))
    /\ UNCHANGED <<call, world, ret, events, outcome, clobbered, ncalls>>

\* get_object_fields(): get_child_documents(objects=get_linked_objects(prop, repo))
\* is called; the generator has not run yet
ObjectLinked ==
    /\ AtObjectStart("linked")
    /\ ObjectBaseFields(Top.prop, Top.prefix).ok
    /\ stack' = Append(
            SetTop([Top EXCEPT !.fields = ObjectBaseFields(Top.prop, Top.prefix).fields,
                               !.pc = "children"]),
            ChildrenFrame(Top.prop, ChildPrefix(Top.prop), Top.id))
    /\ UNCHANGED <<call, world, ret, events, outcome, clobbered, ncalls>>

\* get_object_fields(): fields[prefix + prop.attr_name] = the child documents
StoreChildDocuments ==
    /\ Running("get_object_fields", "children")
    /\ ret.fn = "get_child_documents"
    /\ LET new == Field(Top.prefix \o Top.prop.attr_name, Docs(ret.docs))
       IN /\ clobbered' = clobbered \cup Overwritten(Top.fields, new, "children")
          /\ stack' = SetTop([Top EXCEPT !.fields = Update(Top.fields, new), !.pc = "return"])
    /\ ret' = NoReturn
    /\ UNCHANGED <<call, world, events, outcome, ncalls>>

\* get_object_fields(): return fields
ObjectReturn ==
    /\ Running("get_object_fields", "return")
    /\ ret' = [NoReturn EXCEPT !.fn = "get_object_fields", !.id = Top.id, !.prop = Top.prop,
                               !.prefix = Top.prefix, !.fields = Top.fields]
    /\ stack' = Pop
    /\ UNCHANGED <<call, world, events, outcome, clobbered, ncalls>>

AtNextChild ==
    /\ Running("get_child_documents", "next")
    /\ Top.j <= Len(Top.prop.values)

\* The values taken from the last to the first.
NextUri_reversed == Top.prop.values[Len(Top.prop.values) + 1 - Top.j].value

NextUri == Top.prop.values[Top.j].value

\* get_child_documents(): the next of prop.objects
EmbeddedNext ==
    /\ AtNextChild
    /\ Top.prop.embedded
    /\ stack' = SetTop([Top EXCEPT !.obj = NextUri, !.raw = FALSE, !.pc = "build"])
    /\ UNCHANGED <<call, world, ret, events, outcome, clobbered, ncalls>>

\* get_linked_objects(): yield repo[uri].read().describe(prop.object_class)
LinkedRead ==
    /\ AtNextChild
    /\ ~Top.prop.embedded
    /\ InEndpoint(NextUri)
    /\ events' = Append(events, ReadEvent(NextUri, "linked", Top.id))
    /\ stack' = SetTop([Top EXCEPT !.obj = NextUri, !.raw = FALSE, !.pc = "build"])
    /\ UNCHANGED <<call, world, ret, outcome, clobbered, ncalls>>

\* get_linked_objects(): that read fails
LinkedUnavailable ==
    /\ AtNextChild
    /\ ~Top.prop.embedded
    /\ InEndpoint(NextUri)
    /\ events' = Append(events, ReadEvent(NextUri, "linked", Top.id))
    /\ Throw("RepositoryError", NextUri)
    /\ UNCHANGED <<call, world, clobbered, ncalls>>

\* get_linked_objects(): yield uri, for a URI outside the repository
LinkedRaw ==
    /\ AtNextChild
    /\ ~Top.prop.embedded
    /\ ~InEndpoint(NextUri)
    /\ ~IsVocabularyTerm(Top.prop.object_class)
    /\ stack' = SetTop([Top EXCEPT !.obj = NextUri, !.raw = TRUE, !.pc = "build"])
    /\ UNCHANGED <<call, world, ret, events, outcome, clobbered, ncalls>>

\* ChildBuild with a guard on the resources whose documents are being built:
\* a resource met again gets a document of its id alone.
ChildBuild_visited ==
    /\ Running("get_child_documents", "build")
    /\ ~Top.raw
    /\ Depth < MaxDepth
    /\ events' = Append(events, BuildEvent(Top.obj, Top.id))
    /\ IF \E k \in DOMAIN stack : stack[k].fn = "get_model_fields" /\ stack[k].obj = Top.obj
       THEN stack' = SetTop([Top EXCEPT !.docs = Append(Top.docs, ChildDocument(Top.obj, EmptyFields)),
                                        !.j = Top.j + 1, !.pc = "next"])
       ELSE stack' = Append(SetTop([Top EXCEPT !.pc = "child"]),
                            ModelFrame(Top.obj, ClassModelName(Top.prop.object_class), Top.prefix))
    /\ UNCHANGED <<call, world, ret, outcome, clobbered, ncalls>>

\* get_child_documents(): get_model_fields(o, ...) is called for the document of o
ChildBuild ==
    /\ Running("get_child_documents", "build")
    /\ ~Top.raw
    /\ Depth < MaxDepth
    /\ events' = Append(events, BuildEvent(Top.obj, Top.id))
    /\ stack' = Append(SetTop([Top EXCEPT !.pc = "child"]),
                       ModelFrame(Top.obj, ClassModelName(Top.prop.object_class), Top.prefix))
    /\ UNCHANGED <<call, world, ret, outcome, clobbered, ncalls>>

\* get_child_documents(): o is a URIRef, which has no attribute `uri`
ChildBuildRaw ==
    /\ Running("get_child_documents", "build")
    /\ Top.raw
    /\ Throw("AttributeError", Top.obj)
    /\ UNCHANGED <<call, world, events, clobbered, ncalls>>

\* get_child_documents(): the document of o is complete
ChildAppend ==
    /\ Running("get_child_documents", "child")
    /\ ret.fn = "get_model_fields"
    /\ stack' = SetTop([Top EXCEPT !.docs = Append(Top.docs, ChildDocument(Top.obj, ret.fields)),
                                   !.j = Top.j + 1, !.pc = "next"])
    /\ ret' = NoReturn
    /\ UNCHANGED <<call, world, events, outcome, clobbered, ncalls>>

\* get_child_documents(): return the list
ChildDocumentsReturn ==
    /\ Running("get_child_documents", "next")
    /\ Top.j > Len(Top.prop.values)
    /\ ret' = [NoReturn EXCEPT !.fn = "get_child_documents", !.id = Top.id,
                               !.prop = Top.prop, !.docs = Top.docs]
    /\ stack' = Pop
    /\ UNCHANGED <<call, world, events, outcome, clobbered, ncalls>>

\* The interpreter's recursion limit is reached
RecursionLimit ==
    /\ outcome.status = "running"
    /\ stack # <<>>
    /\ \/ Top.fn = "get_child_documents" /\ Top.pc = "build" /\ ~Top.raw
       \/ /\ Top.fn = "get_object_fields" /\ Top.pc = "start"
          /\ PropertyKind(Top.prop) = "vocabulary" /\ Top.prop.resolved
    /\ Depth >= MaxDepth
    /\ Throw("RecursionError", "")
    /\ UNCHANGED <<call, world, events, clobbered, ncalls>>

Init ==
    /\ call = NoCall
    /\ world \in Worlds
    /\ stack = <<>>
    /\ ret = NoReturn
    /\ events = <<>>
    /\ outcome = NoOutcome
    /\ clobbered = {}
    /\ ncalls = 0

Next ==
    \/ ContentModelFields
    \/ ModelStart
    \/ DescribedByRead
    \/ DescribedByUnavailable
    \/ DescribedBySkip
    \/ SkipEmptyProperty
    \/ SkipPropertyOfModel
    \/ DataFields
    \/ ObjectFields
    \/ MergeObjectFields
    \/ ModelReturn
    \/ Finish
    \/ ObjectPlain
    \/ ObjectVocabularyUnresolved
    \/ ObjectVocabularyTerm
    \/ MergeVocabularyFields
    \/ ObjectEmbedded
    \/ ObjectLinked
    \/ StoreChildDocuments
    \/ ObjectReturn
    \/ EmbeddedNext
    \/ LinkedRead
    \/ LinkedUnavailable
    \/ LinkedRaw
    \/ ChildBuild
    \/ ChildBuildRaw
    \/ ChildAppend
    \/ ChildDocumentsReturn
    \/ RecursionLimit

Spec == Init /\ [][Next]_vars

\* The graphs that decide whether a request ends: no property at all, the
\* chain FRAG -> BAR, and that chain with the cycle BAR -> BAR.
ChainGraphs ==
    {(FRAG :> <<>>) @@ (FRAG2 :> <<>>) @@ (BAR :> <<>>) @@ (EXT :> <<>>),
     (FRAG :> <<LinkToBar>>) @@ (FRAG2 :> <<>>) @@ (BAR :> <<>>) @@ (EXT :> <<>>),
     (FRAG :> <<LinkToBar>>) @@ (FRAG2 :> <<>>) @@ (BAR :> <<LinkToBar>>) @@ (EXT :> <<>>)}

\* An Item whose `first` is followed by one repeatable object property of any
\* kind, or by a label.
ChainWorlds ==
    LET first == ObjectProperty("first", FALSE, <<URIRef(BAR)>>, FALSE, None, FALSE)
    IN {[model_name |-> "Item", props |-> (FOO :> <<first, p>>) @@ Reached(<<first, p>>, g)] :
            p \in {q \in FocusProperties : q.kind = "object" /\ q.repeatable} \cup {Label},
            g \in ChainGraphs}

InitFair ==
    /\ call = NoCall
    /\ world \in ChainWorlds
    /\ stack = <<>>
    /\ ret = NoReturn
    /\ events = <<>>
    /\ outcome = NoOutcome
    /\ clobbered = {}
    /\ ncalls = 0

\* The request runs on: the interpreter takes the next step of the call in
\* progress until the call returns or raises.
SpecFair == InitFair /\ [][Next]_vars /\ WF_vars(Next)

\* One direct call of a pure function of the module.
InitPure ==
    /\ call = NoCall
    /\ world = NoResources
    /\ stack = <<>>
    /\ ret = NoReturn
    /\ events = <<>>
    /\ outcome = NoOutcome
    /\ clobbered = {}
    /\ ncalls = 0

NextPure ==
    \/ CallGetField
    \/ CallGetDataFields
    \/ CallLanguageSuffix
    \/ CallEmbedLanguageTag
    \/ CallShortenUri

SpecPure == InitPure /\ [][NextPure]_vars

\* ------------------------------------------------------------ claims

Contains(s, sub) ==
    \E i \in 1..(Len(s) - Len(sub) + 1) : SubSeq(s, i, i + Len(sub) - 1) = sub

\* The indexes of the values of the called property that pass the called filter.
PassingIndexes ==
    {i \in 1..Len(call.prop.values) :
        call.value_filter.all \/ call.prop.values[i].language = call.value_filter.language}

\* The index of the k-th passing value.
NthPassing(k) ==
    CHOOSE i \in PassingIndexes : Cardinality({j \in PassingIndexes : j <= i}) = k

ExpectedFieldName ==
    call.prefix \o call.prop.attr_name \o
        (IF call.suffix.isstr
         THEN call.suffix.base \o (IF call.prop.repeatable THEN "s" ELSE "")
         ELSE call.suffix.base \o (IF call.suffix.plural THEN "s" ELSE "") \o call.suffix.lang)

\* C1: get_field returns exactly one key, prefix + attr_name + suffix (a str
\* suffix gets a trailing "s" iff the property is repeatable); a repeatable
\* property gives the list of the converted passing values, in order; a
\* non-repeatable property with a passing value gives the first converted
\* passing value as a scalar.
C1_GetFieldShape ==
    (call.fn = "get_field"
        /\ \A i \in PassingIndexes : Convert(call.converter, call.prop.values[i]).ok)
    => /\ (call.prop.repeatable \/ PassingIndexes # {}) => call.result.ok
       /\ call.result.ok =>
            /\ DOMAIN call.result.fields = {ExpectedFieldName}
            /\ LET field == call.result.fields[ExpectedFieldName]
               IN IF call.prop.repeatable
                  THEN /\ field.kind = "list"
                       /\ Len(field.vals) = Cardinality(PassingIndexes)
                       /\ \A k \in 1..Len(field.vals) :
                            field.vals[k] =
                                Convert(call.converter, call.prop.values[NthPassing(k)]).val
                  ELSE /\ field.kind = "scalar"
                       /\ PassingIndexes # {}
                       /\ field.vals =
                            <<Convert(call.converter, call.prop.values[NthPassing(1)]).val>>

\* get_field on a non-repeatable property whose first value fails the filter
\* and whose second value passes it.
C1_Witness ==
    /\ call.fn = "get_field"
    /\ ~call.prop.repeatable
    /\ call.result.ok
    /\ PassingIndexes = {2}

CallInDatatypeTable == call.prop.datatype \in DOMAIN FIELD_ARGUMENTS_BY_DATATYPE
CallInAttrNameTable == call.prop.attr_name \in DOMAIN FIELD_ARGUMENTS_BY_ATTR_NAME
CallIsFreeText == ~CallInDatatypeTable /\ ~CallInAttrNameTable

PluralS == IF call.prop.repeatable THEN "s" ELSE ""

\* C2: get_data_fields takes the datatype table's entry when the datatype is
\* in it, else the attribute-name table's entry when the name is in it, else
\* the free-text branch; an override branch returns a single field and no
\* __txt or __display key.
C2_BranchPrecedence ==
    (call.fn = "get_data_fields" /\ call.result.ok)
    => LET keys == DOMAIN call.result.fields
           base == call.prefix \o call.prop.attr_name
       IN /\ CallInDatatypeTable =>
                /\ keys = {base \o FIELD_ARGUMENTS_BY_DATATYPE[call.prop.datatype].suffix \o PluralS}
                /\ \A k \in keys : \A i \in 1..Len(call.result.fields[k].vals) :
                     call.result.fields[k].vals[i] =
                        Convert(FIELD_ARGUMENTS_BY_DATATYPE[call.prop.datatype].converter,
                                call.prop.values[i]).val
          /\ (~CallInDatatypeTable /\ CallInAttrNameTable) =>
                keys = {base \o FIELD_ARGUMENTS_BY_ATTR_NAME[call.prop.attr_name].suffix \o PluralS}
          /\ ~CallIsFreeText =>
                \A k \in keys : ~Contains(k, "__txt") /\ ~Contains(k, "__display")
          /\ CallIsFreeText =>
                /\ (base \o "__display") \in keys
                /\ \A k \in keys : Contains(k, "__txt") \/ Contains(k, "__display")

\* get_data_fields on a property that is in both override tables.
C2_Witness ==
    /\ call.fn = "get_data_fields"
    /\ call.result.ok
    /\ CallInDatatypeTable
    /\ CallInAttrNameTable
    /\ Len(call.prop.values) = 2

\* The values of the called property that carry the given language.
ValuesOfLanguage(language) ==
    SelectSeq(call.prop.values, LAMBDA v : v.language = language)

\* C3: in the free-text branch every language among the values has its own
\* language-suffixed __txt field holding exactly the values of that language,
\* also when two raw tags normalize to the same suffix.
C3_EveryLanguageKeepsItsValues ==
    (call.fn = "get_data_fields" /\ CallIsFreeText /\ call.result.ok)
    => \A language \in Languages(call.prop) :
        LET key == call.prefix \o call.prop.attr_name \o "__txt" \o PluralS
                       \o language_suffix(language).str
            own == ValuesOfLanguage(language)
        IN /\ key \in DOMAIN call.result.fields
           /\ call.result.fields[key].vals =
                IF call.prop.repeatable
                THEN [i \in 1..Len(own) |-> PyStr(own[i].value)]
                ELSE <<PyStr(own[1].value)>>

\* The __display entry of a value: "[@tag]value" with the standardized tag.
DisplayEntry(v) ==
    IF v.language = None THEN v.value
    ELSE "[@" \o StandardTags[v.language] \o "]" \o v.value

\* The entry in the "value|tag" form.
DisplayEntryValueBarTag(v) ==
    IF v.language = None THEN v.value
    ELSE v.value \o "|" \o StandardTags[v.language]

\* C4 (as stated): the free-text branch emits __display, one entry per value
\* in value order, plain for an untagged value and "value|tag" otherwise; no
\* other branch emits __display.
C4_DisplayValueBarTag ==
    (call.fn = "get_data_fields" /\ call.result.ok)
    => LET key == call.prefix \o call.prop.attr_name \o "__display"
       IN IF CallIsFreeText
          THEN /\ key \in DOMAIN call.result.fields
               /\ call.result.fields[key].kind = "list"
               /\ Len(call.result.fields[key].vals) = Len(call.prop.values)
               /\ \A i \in 1..Len(call.prop.values) :
                    call.result.fields[key].vals[i] =
                        PyStr(DisplayEntryValueBarTag(call.prop.values[i]))
          ELSE \A k \in DOMAIN call.result.fields : ~EndsWith(k, "__display")

\* C4 (amended): as above, with a tagged value rendered as "[@tag]value".
C4_DisplayTagThenValue ==
    (call.fn = "get_data_fields" /\ call.result.ok)
    => LET key == call.prefix \o call.prop.attr_name \o "__display"
       IN IF CallIsFreeText
          THEN /\ key \in DOMAIN call.result.fields
               /\ call.result.fields[key].kind = "list"
               /\ Len(call.result.fields[key].vals) = Len(call.prop.values)
               /\ \A i \in 1..Len(call.prop.values) :
                    call.result.fields[key].vals[i] = PyStr(DisplayEntry(call.prop.values[i]))
          ELSE \A k \in DOMAIN call.result.fields : ~EndsWith(k, "__display")

\* The free-text branch on a non-repeatable property with a tagged value
\* followed by an untagged one.
C4_Witness ==
    /\ call.fn = "get_data_fields"
    /\ CallIsFreeText
    /\ call.result.ok
    /\ ~call.prop.repeatable
    /\ Len(call.prop.values) = 2
    /\ call.prop.values[1].language = "eng"
    /\ call.prop.values[2].language = None

Range(f) == {f[x] : x \in DOMAIN f}

Reads == {events[k] : k \in {n \in DOMAIN events : events[n].ev = "read"}}

\* The expected CURIE of the model's URIs.
ExpectedCurie(uri) == IF uri = EXT THEN "dcmitype:Text" ELSE uri

HasUriAndCurie(prop, prefix, fields) ==
    LET s == IF prop.repeatable THEN "s" ELSE ""
        u == prefix \o prop.attr_name \o "__uri" \o s
        c == prefix \o prop.attr_name \o "__curie" \o s
        n == IF prop.repeatable THEN Len(prop.values) ELSE 1
    IN /\ u \in DOMAIN fields
       /\ c \in DOMAIN fields
       /\ fields[u].kind = (IF prop.repeatable THEN "list" ELSE "scalar")
       /\ fields[c].kind = fields[u].kind
       /\ Len(fields[u].vals) = n
       /\ Len(fields[c].vals) = n
       /\ \A i \in 1..n :
            /\ fields[u].vals[i] = PyStr(prop.values[i].value)
            /\ fields[c].vals[i] = PyStr(ExpectedCurie(prop.values[i].value))

OnlyUriAndCurie(prop, prefix, fields) ==
    LET s == IF prop.repeatable THEN "s" ELSE ""
    IN DOMAIN fields = {prefix \o prop.attr_name \o "__uri" \o s,
                        prefix \o prop.attr_name \o "__curie" \o s}

\* C5: get_object_fields emits a __uri and a __curie field of the same
\* plurality and length for every kind of object property, from its first step
\* to its return, and exactly these two when no object class is declared.
C5_UriAndCurieFields ==
    /\ \A k \in DOMAIN stack :
        (stack[k].fn = "get_object_fields" /\ stack[k].pc # "start")
            => HasUriAndCurie(stack[k].prop, stack[k].prefix, stack[k].fields)
    /\ ret.fn = "get_object_fields" =>
        /\ HasUriAndCurie(ret.prop, ret.prefix, ret.fields)
        /\ ret.prop.object_class = None => OnlyUriAndCurie(ret.prop, ret.prefix, ret.fields)

\* get_object_fields returns for a non-repeatable property without an object
\* class whose first value has a CURIE.
C5_Witness ==
    /\ ret.fn = "get_object_fields"
    /\ ret.prop.object_class = None
    /\ ~ret.prop.repeatable
    /\ Len(ret.prop.values) = 2
    /\ ret.prop.values[1].value = EXT

\* The get_linked_objects() reads of one get_object_fields() call, in order.
LinkedReads(id) ==
    LET es == SelectSeq(events, LAMBDA e : e.ev = "read" /\ e.site = "linked" /\ e.id = id)
    IN [k \in DOMAIN es |-> es[k].uri]

\* The values of a property that lie inside the repository, in order.
RepositoryValues(prop) ==
    LET vs == SelectSeq(prop.values, LAMBDA v : InEndpoint(v.value))
    IN [k \in DOMAIN vs |-> vs[k].value]

\* A linked property that has been processed has had every value inside the
\* repository read, and only those.
LinkedPropertyWasRead ==
    (ret.fn = "get_object_fields" /\ PropertyKind(ret.prop) = "linked")
        => LinkedReads(ret.id) = RepositoryValues(ret.prop)

\* C6 (as stated): no repository read happens while an embedded property is
\* processed, neither to resolve its objects nor while their documents are
\* built; a linked property causes a read of every value inside the repository
\* and of no URI outside it.
C6_EmbeddedNeverReads ==
    /\ \A e \in Reads : "embedded" \notin Range(e.via)
    /\ \A e \in Reads : InEndpoint(e.uri)
    /\ LinkedPropertyWasRead

\* C6 (amended): an embedded property's objects are never resolved by a read;
\* while their documents are built only get_model_fields reads, for the
\* described-by URL of a non-fragment resource inside the repository and for
\* linked properties nested in it.  A linked property that has been processed
\* has read every value inside the repository; no URI outside it is ever read.
C6_ReadsOfEmbeddedAndLinked ==
    /\ \A e \in Reads :
        /\ InEndpoint(e.uri)
        /\ e.site = "described_by" => ~HasFragment(e.uri)
        /\ e.site = "linked" => (e.via # <<>> /\ e.via[Len(e.via)] = "linked")
    /\ LinkedPropertyWasRead

\* An embedded resource with a linked property has been indexed: the linked
\* resource was read while the embedded property was being processed.
C6_Witness ==
    /\ outcome.status = "done"
    /\ \E e \in Reads : e.site = "linked" /\ e.via = <<"embedded", "linked">>
    /\ \E e \in Reads : e.site = "described_by" /\ e.via = <<"embedded", "linked">>

\* C7: a linked property's list holds one child document per URI value, in
\* value order, each with the URI as its id, for URIs inside the repository
\* and for URIs outside it, which pass through without failing the build.
C7_OneChildPerLinkedUri ==
    /\ (ret.fn = "get_object_fields" /\ PropertyKind(ret.prop) = "linked") =>
        LET key == ret.prefix \o ret.prop.attr_name
        IN /\ key \in DOMAIN ret.fields
           /\ ret.fields[key].kind = "docs"
           /\ Len(ret.fields[key].vals) = Len(ret.prop.values)
           /\ \A i \in 1..Len(ret.prop.values) :
                /\ "id" \in DOMAIN ret.fields[key].vals[i]
                /\ ret.fields[key].vals[i]["id"] = Scalar(PyStr(ret.prop.values[i].value))
    /\ outcome.error # "AttributeError"

\* C8: no merge step of get_model_fields or get_object_fields writes a key
\* that the accumulated mapping already holds.
C8_NoKeyOverwritten == clobbered = {}

MetadataKeys == {"content_model_name__str", "described_by__uri"}

\* C9 (as stated): the document has content_model_name__str for a
\* content-modeled resource, the described-by URL under
\* object__described_by__uri, and property keys that start with object__.
C9_DocumentKeysPrefixed ==
    outcome.status = "done"
    => /\ world.model_name # None =>
            /\ "content_model_name__str" \in DOMAIN outcome.doc
            /\ outcome.doc["content_model_name__str"] = Scalar(PyStr(world.model_name))
       /\ "object__described_by__uri" \in DOMAIN outcome.doc
       /\ \A k \in DOMAIN outcome.doc : k \in MetadataKeys \/ StartsWith(k, "object__")

\* C9 (amended): as above, with the described-by URL under the unprefixed key
\* described_by__uri; it is the indexed resource's own unless a merge wrote
\* over it.
C9_DocumentKeys ==
    outcome.status = "done"
    => /\ world.model_name # None =>
            /\ "content_model_name__str" \in DOMAIN outcome.doc
            /\ outcome.doc["content_model_name__str"] = Scalar(PyStr(world.model_name))
       /\ world.model_name = None => "content_model_name__str" \notin DOMAIN outcome.doc
       /\ "described_by__uri" \in DOMAIN outcome.doc
       /\ outcome.doc["described_by__uri"].kind = "scalar"
       /\ clobbered = {} => outcome.doc["described_by__uri"] = Scalar(PyStr(FOO))
       /\ \A k \in DOMAIN outcome.doc : k \in MetadataKeys \/ StartsWith(k, "object__")

\* An Item with two properties has been indexed.
C9_Witness ==
    /\ outcome.status = "done"
    /\ world.model_name = "Item"
    /\ Len(world.props[FOO]) = 2
    /\ Cardinality(DOMAIN outcome.doc) >= 5

\* The keys of a returned mapping that derive from the given property.
KeysOf(prop) == {k \in DOMAIN ret.fields : StartsWith(k, ret.prefix \o prop.attr_name)}

SkippedByName(prop) ==
    ret.model_name \in {"Issue", "Item", "Letter", "Poster"} /\ prop.attr_name = "first"

\* C10: get_model_fields returns no field for a property without values or in
\* the skip set of the resource's content model, and at least one field for
\* every other property; without a content model nothing is skipped by name.
C10_SkippedAndContributing ==
    ret.fn = "get_model_fields"
    => \A i \in DOMAIN world.props[ret.obj] :
        LET prop == world.props[ret.obj][i]
        IN IF Len(prop.values) = 0 \/ SkippedByName(prop)
           THEN KeysOf(prop) = {}
           ELSE KeysOf(prop) # {}

\* get_model_fields returns for an Item whose `first` has a value and whose
\* other property contributes.
C10_Witness ==
    /\ ret.fn = "get_model_fields"
    /\ ret.obj = FOO
    /\ ret.model_name = "Item"
    /\ \E i, j \in DOMAIN world.props[FOO] :
        /\ world.props[FOO][i].attr_name = "first"
        /\ Len(world.props[FOO][i].values) > 0
        /\ KeysOf(world.props[FOO][j]) # {}

\* The get_object_fields() calls on a vocabulary-term property: the frames on
\* the stack past their first step, and the call that has just returned.
VocabularyResults ==
    {[prop |-> stack[k].prop, prefix |-> stack[k].prefix, id |-> stack[k].id,
      fields |-> stack[k].fields] :
        k \in {n \in DOMAIN stack :
                 /\ stack[n].fn = "get_object_fields"
                 /\ stack[n].pc # "start"
                 /\ PropertyKind(stack[n].prop) = "vocabulary"}}
    \cup (IF ret.fn = "get_object_fields" /\ PropertyKind(ret.prop) = "vocabulary"
          THEN {[prop |-> ret.prop, prefix |-> ret.prefix, id |-> ret.id, fields |-> ret.fields]}
          ELSE {})

\* No list of nested documents under {prefix}{attr_name}, and no read by
\* get_linked_objects() for the property.
NoNestedListNoLinkedRead(r) ==
    /\ (r.prefix \o r.prop.attr_name) \notin DOMAIN r.fields
    /\ \A e \in Reads : e.site = "linked" => e.id # r.id

\* C11: the fields of a vocabulary-term property are the property's own and,
\* for a resolved term, the term's fields as siblings under the prefix
\* {prefix}{attr_name}__; never a list of nested documents under
\* {prefix}{attr_name}, never a read by get_linked_objects().
C11_TermFieldsUnderExtendedPrefix ==
    \A r \in VocabularyResults :
        /\ \A k \in DOMAIN r.fields : StartsWith(k, r.prefix \o r.prop.attr_name \o "__")
        /\ NoNestedListNoLinkedRead(r)

\* The part of C11 that holds of every run: whatever the term and the
\* embedded flag, no nested list and no get_linked_objects() read.
C11_NeverNestedNeverLinked ==
    \A r \in VocabularyResults : NoNestedListNoLinkedRead(r)

\* The resources whose fields the run has collected or begun to collect as a
\* document: the indexed resource and every resource a child document was
\* built for.
DocumentResources ==
    {FOO} \cup {events[k].uri : k \in {n \in DOMAIN events : events[n].ev = "build"}}

\* A data property one of whose values cannot be converted: a non-integer
\* under an integer datatype, or free text with an unparsable language tag.
PropertyFails(prop) ==
    /\ prop.kind = "data"
    /\ IF prop.datatype \in {"xsd:int", "xsd:integer", "xsd:long"}
       THEN \E i \in DOMAIN prop.values : ~IsInt(prop.values[i].value)
       ELSE IF prop.datatype \in DOMAIN FIELD_ARGUMENTS_BY_DATATYPE
                \/ prop.attr_name \in DOMAIN FIELD_ARGUMENTS_BY_ATTR_NAME
       THEN FALSE
       ELSE \E i \in DOMAIN prop.values :
                prop.values[i].language # None /\ ~TagIsValid(prop.values[i].language)

\* C12: an error raised for any property at any depth leaves
\* content_model_fields without a document, whole or partial: a run that ends
\* in an error holds no document and no frame, and a run that returns a
\* document met no failing property in any resource it built a document for.
\* CURIE shortening never fails a run: a URI without a registered namespace
\* keeps its own string as its CURIE.
C12_ErrorsPropagate ==
    /\ outcome.status = "error" =>
        /\ outcome.doc = EmptyFields
        /\ stack = <<>>
        /\ ret = NoReturn
        /\ outcome.error # "KeyError"
    /\ outcome.status = "done" =>
        \A u \in DocumentResources : \A i \in DOMAIN world.props[u] :
            ~PropertyFails(world.props[u][i])
    /\ \A k \in DOMAIN stack :
        (stack[k].fn = "get_object_fields" /\ stack[k].pc # "start"
            /\ ~CurieKnown(stack[k].prop.values[1].value))
        => LET key == stack[k].prefix \o stack[k].prop.attr_name \o "__curie"
                        \o (IF stack[k].prop.repeatable THEN "s" ELSE "")
           IN stack[k].fields[key].vals[1] = PyStr(stack[k].prop.values[1].value)

\* A run that failed on a language tag inside a child document, after the
\* CURIE of a URI without a registered namespace was taken.
C12_Witness ==
    /\ outcome.status = "error"
    /\ outcome.error = "IndexerError"
    /\ \E k \in DOMAIN events : events[k].ev = "build" /\ ~CurieKnown(events[k].uri)

\* shorten_uri, called directly: the absent value comes back unchanged, a URI
\* of a registered namespace as its CURIE, any other URI as its own string.
C12_ShortenUriNeverRaises ==
    call.fn = "shorten_uri" =>
        call.val = (IF call.language = None THEN PyNone
                    ELSE IF call.language = EXT THEN PyStr("dcmitype:Text")
                    ELSE PyStr(call.language))

\* The language tags of the called property that cannot be parsed.
UnparsableTags ==
    {call.prop.values[i].language :
        i \in {n \in DOMAIN call.prop.values :
                 /\ call.prop.values[n].language # None
                 /\ ~TagIsValid(call.prop.values[n].language)}}

\* C13: get_data_fields on a free-text property with a value whose language
\* tag cannot be parsed raises IndexerError naming that raw tag and returns no
\* field, never another kind of error; language_suffix of an absent tag is
\* the empty string, and of an unparsable tag the same IndexerError.
C13_UnparsableTagIsIndexerError ==
    /\ (call.fn = "get_data_fields" /\ CallIsFreeText /\ UnparsableTags # {}) =>
        /\ ~call.result.ok
        /\ call.result.error = "IndexerError"
        /\ call.result.fields = EmptyFields
        /\ \E tag \in UnparsableTags :
             Contains(call.result.detail, "\"" \o tag \o "\"")
    /\ (call.fn = "language_suffix" /\ call.language = None) => call.str = Str("")
    /\ (call.fn = "language_suffix" /\ call.language # None /\ ~TagIsValid(call.language)) =>
        /\ ~call.str.ok
        /\ call.str.error = "IndexerError"
        /\ Contains(call.str.detail, "\"" \o call.language \o "\"")

\* get_data_fields on a free-text property whose first value has a good tag
\* and whose second has an unparsable one, the good language visited first.
C13_Witness ==
    /\ call.fn = "get_data_fields"
    /\ CallIsFreeText
    /\ Len(call.prop.values) = 2
    /\ call.prop.values[1].language = "en"
    /\ call.prop.values[2].language = "invalidtag"
    /\ call.order = <<"en", "invalidtag">>
    /\ ~call.result.ok

\* What one get_object_fields() call on a linked property has done so far:
\* its get_linked_objects() reads and its child-document builds, in order.
OwnEvents(id) ==
    LET es == SelectSeq(events, LAMBDA e : e.id = id /\ (e.site = "linked" \/ e.ev = "build"))
    IN [k \in DOMAIN es |-> <<es[k].ev, es[k].uri>>]

\* The values of a property up to its first URI outside the repository.
RECURSIVE LeadingRepositoryValues(_)
LeadingRepositoryValues(values) ==
    IF values = <<>> \/ ~InEndpoint(Head(values).value) THEN <<>>
    ELSE <<Head(values).value>> \o LeadingRepositoryValues(Tail(values))

\* Read the first, build its document, read the second, build its document, ...
RECURSIVE ReadThenBuild(_)
ReadThenBuild(uris) ==
    IF uris = <<>> THEN <<>>
    ELSE << <<"read", Head(uris)>>, <<"build", Head(uris)>> >> \o ReadThenBuild(Tail(uris))

IsPrefix(s, t) == Len(s) <= Len(t) /\ SubSeq(t, 1, Len(s)) = s

\* The get_object_fields() calls on linked properties that are in progress.
LinkedFrames ==
    {k \in DOMAIN stack :
        stack[k].fn = "get_object_fields" /\ PropertyKind(stack[k].prop) = "linked"}

\* C14 (as stated): a linked property's reads are one per URI inside the
\* repository, in value order, and all of them are issued before any of its
\* child documents is built.
C14_ReadsBeforeBuilds ==
    /\ LinkedPropertyWasRead
    /\ \A k \in LinkedFrames :
        LET own == OwnEvents(stack[k].id)
        IN \A i, j \in DOMAIN own : (i < j /\ own[i][1] = "build") => own[j][1] # "read"

\* C14 (amended): a linked property's reads are one per URI inside the
\* repository, in value order, each issued when the document of the value
\* before it is complete and before its own document is built; a call reads
\* its URIs whatever was read before it.
C14_ReadsInterleavedWithBuilds ==
    /\ \A k \in LinkedFrames :
        IsPrefix(OwnEvents(stack[k].id),
                 ReadThenBuild(LeadingRepositoryValues(stack[k].prop.values)))
    /\ (ret.fn = "get_object_fields" /\ PropertyKind(ret.prop) = "linked") =>
        /\ LeadingRepositoryValues(ret.prop.values) = RepositoryValues(ret.prop)
        /\ OwnEvents(ret.id) = ReadThenBuild(RepositoryValues(ret.prop))

\* A linked property with two values inside the repository has been
\* processed, and one of them had been read before for another property.
C14_Witness ==
    /\ ret.fn = "get_object_fields"
    /\ PropertyKind(ret.prop) = "linked"
    /\ Len(RepositoryValues(ret.prop)) = 2
    /\ \E e, f \in Reads :
        /\ e.site = "linked" /\ f.site = "linked"
        /\ e.uri = f.uri
        /\ e.id = ret.id /\ f.id # ret.id

\* The resources get_model_fields(u) calls itself for: the resolved term of a
\* vocabulary-term property, the objects of an embedded property, and the
\* values of a linked property up to its first URI outside the repository.
DescendsInto(u) ==
    LET model_name == IF u = FOO THEN world.model_name ELSE None
        skipped == IF model_name \in {"Issue", "Item", "Letter", "Poster"} THEN {"first"} ELSE {}
        props == world.props[u]
        Targets(p) ==
            IF p.kind # "object" \/ p.object_class = None \/ p.values = <<>>
                \/ p.attr_name \in skipped
            THEN {}
            ELSE IF p.object_class = "VocabularyTerm"
            THEN (IF p.resolved THEN {p.values[1].value} ELSE {})
            ELSE IF p.embedded THEN {p.values[i].value : i \in DOMAIN p.values}
            ELSE LET uris == LeadingRepositoryValues(p.values)
                 IN {uris[i] : i \in DOMAIN uris}
    IN UNION {Targets(props[i]) : i \in DOMAIN props}

Maximum(S) == IF S = {} THEN 0 ELSE CHOOSE x \in S : \A y \in S : y <= x

\* The number of resources on the longest chain from u, counted up to n.
RECURSIVE ChainFrom(_, _)
ChainFrom(u, n) ==
    IF n = 0 THEN 0
    ELSE 1 + Maximum({ChainFrom(v, n - 1) : v \in DescendsInto(u)})

Resources == DOMAIN world.props

\* The resources on the longest chain from the indexed resource.
LongestChain == ChainFrom(FOO, Cardinality(Resources) + 1)

\* No chain from the indexed resource comes back to a resource on it.
Acyclic == LongestChain <= Cardinality(Resources)

Terminated == outcome.status \in {"done", "error"}

C16_IndexErrorUnreachable ==
    /\ outcome.error # "IndexError"
    /\ (Dispatched /\ CurrentProperty.kind = "data") =>
        \A order \in Orders(Languages(CurrentProperty)) :
            get_data_fields(CurrentProperty, Top.prefix, order).error # "IndexError"
    /\ (stack # <<>> /\ Top.fn = "get_object_fields" /\ Top.pc = "start") =>
        ObjectBaseFields(Top.prop, Top.prefix).ok

\* A document with the text field of a non-repeatable property whose only
\* value has a language tag.
C16_Witness ==
    /\ outcome.status = "done"
    /\ "object__title__txt_en" \in DOMAIN outcome.doc
    /\ outcome.doc["object__title__txt_en"].kind = "scalar"

====
